---- MODULE Spec2Model ----
(***************************************************************************)
(* State-machine model of src/server.js (the last, live variant of the     *)
(* file: lines 259-722): the cached database connection, the token         *)
(* authenticator and the four profile routes over the two collections     *)
(* `users` and `userProfiles`.                                             *)
(*                                                                         *)
(* One action is one scheduling step of the single-threaded event loop:    *)
(* the arrival of a request (middleware plus the handler's synchronous     *)
(* prefix), the settling of the connection promise, or one store call      *)
(* taking effect together with the synchronous code that follows it up to  *)
(* the next await.                                                         *)
(***************************************************************************)
EXTENDS Integers, Sequences, FiniteSets, TLC

\* Number of HTTP requests the process serves in one behaviour.
NReq == 2

Reqs == 1..NReq

(***************************************************************************)
(* JavaScript values.  Strings are TLA+ strings; `undefined` is the string *)
(* UNDEF; values that are not strings (numbers, objects) sent where a      *)
(* string is expected are the members of NonStrings.  Absent objects are   *)
(* the record NoObj, the empty object {} is EmptyObj.                      *)
(***************************************************************************)
UNDEF == "<undefined>"

NonStrings == {"<number 42>"}

NoObj == [undefined |-> TRUE]

EmptyObj == [k \in {} |-> TRUE]

\* typeof v === "string"
IsString(v) == v \notin NonStrings \cup {UNDEF}

\* JavaScript truthiness of a string-or-undefined value
Falsy(v) == v \in {UNDEF, ""}

\* a || b on string-or-undefined values
OrElse(a, b) == IF Falsy(a) THEN b ELSE a

\* a || b when a is an object or undefined
OrElseObj(a, b) == IF a = NoObj THEN b ELSE a

\* o[k], or d when o has no key k
Get(o, k, d) == IF k \in DOMAIN o THEN o[k] ELSE d

(***************************************************************************)
(* Schemas.                                                                *)
(***************************************************************************)
DefaultNotifications ==
  [push |-> TRUE, fall_detection |-> TRUE, emailAlerts |-> TRUE,
   criticalOnly |-> FALSE, dailySummary |-> TRUE, maintenanceReminders |-> TRUE]

DefaultUnits == [temperature |-> "celsius", distance |-> "metric"]

DefaultPreferences ==
  [notifications |-> DefaultNotifications, units |-> DefaultUnits, language |-> "en"]

TemperatureEnum == {"celsius", "fahrenheit"}

DistanceEnum == {"metric", "imperial"}

\* The schema defaults of the paths of UserProfileSchema other than userId.
ProfileDefaults ==
  [bio |-> "", organization |-> "", role |-> "", phone |-> "",
   timezone |-> "Africa/Tunis", preferences |-> DefaultPreferences]

\* A stored document that lacks every defaulted path.
ProfileBare ==
  [bio |-> UNDEF, organization |-> UNDEF, role |-> UNDEF, phone |-> UNDEF,
   timezone |-> UNDEF, preferences |-> NoObj]

ProfilePaths == DOMAIN ProfileDefaults

\* The nested defaults mongoose fills in when it hydrates a preferences object.
HydratePreferences(o) ==
  IF o = NoObj THEN DefaultPreferences
  ELSE [notifications |->
          LET n == Get(o, "notifications", EmptyObj)
          IN  [k \in DOMAIN DefaultNotifications |-> Get(n, k, DefaultNotifications[k])],
        units |->
          LET u == Get(o, "units", EmptyObj)
          IN  [k \in DOMAIN DefaultUnits |-> Get(u, k, DefaultUnits[k])],
        language |-> Get(o, "language", "en")]

\* A mongoose document built from a stored one: missing paths take their defaults.
Hydrate(p) ==
  [f \in DOMAIN p |->
     IF f = "preferences" THEN HydratePreferences(p[f])
     ELSE IF f \in ProfilePaths /\ p[f] = UNDEF THEN ProfileDefaults[f]
     ELSE p[f]]

\* runValidators: the enum validators of preferences.units.*
ValidPreferences(o) ==
  LET u == Get(o, "units", EmptyObj)
  IN  /\ Get(u, "temperature", "celsius") \in TemperatureEnum
      /\ Get(u, "distance", "metric") \in DistanceEnum

ValidUpdate(upd) == ValidPreferences(Get(upd, "preferences", EmptyObj))

(***************************************************************************)
(* State.                                                                  *)
(***************************************************************************)
VARIABLES
  build,      \* what the installed dependencies do where the source leaves it open
  cached,     \* global.mongoose: [conn, promise]; 0 is null, n is attempt n's promise/handle
  promises,   \* the promises returned by mongoose.connect, in call order
  reachable,  \* whether the database can be reached right now
  users,      \* the `users` collection
  profiles,   \* the `userProfiles` collection
  now,        \* the clock that stamps createdAt/updatedAt
  req,        \* the request each slot carries
  pc,         \* where each request's handler stands
  local,      \* the handler's local variables
  calls,      \* the store calls each handler has made, in order
  res         \* the responses sent on each request, in order

vars == <<build, cached, promises, reachable, users, profiles, now, req, pc, local, calls, res>>

dbvars == <<users, profiles, now>>

connvars == <<cached, promises>>

(***************************************************************************)
(* The store.  A find returns null or one of the matching documents; the   *)
(* unique index on userProfiles.userId arbitrates inserts.                 *)
(***************************************************************************)
Null == [null |-> TRUE]

\* The possible results of Model.findOne over the matching documents M.
FindOne(M) == IF M = {} THEN {Null} ELSE M

\* A collection without the unique index accepts every insert.
NoUniqueIndex(docs, key) == FALSE

\* UserProfileSchema.index({ userId: 1 }, { unique: true }): would a document keyed
\* `key` collide with one of `docs`?
UniqueViolation(docs, key) == \E p \in docs : p.userId = key

\* The _id the driver gives a new profile document.
NewId == Cardinality(profiles) + 1

\* A create that stores the key and the timestamps only.
NewProfileNoDefaults(key) ==
  [_id |-> NewId, userId |-> key, bio |-> UNDEF, organization |-> UNDEF, role |-> UNDEF,
   phone |-> UNDEF, timezone |-> UNDEF, preferences |-> NoObj,
   createdAt |-> now, updatedAt |-> now]

\* UserProfile.create({ userId: key }): the document with its schema defaults.
NewProfile(key) ==
  [_id |-> NewId, userId |-> key, bio |-> ProfileDefaults.bio,
   organization |-> ProfileDefaults.organization, role |-> ProfileDefaults.role,
   phone |-> ProfileDefaults.phone, timezone |-> ProfileDefaults.timezone,
   preferences |-> ProfileDefaults.preferences, createdAt |-> now, updatedAt |-> now]

\* The document an upsert inserts: the filter's key, the timestamps, and the schema
\* defaults when the installed mongoose sets defaults on insert.
UpsertSeed(key) ==
  IF build.defaultsOnInsert THEN NewProfile(key)
  ELSE [_id |-> NewId, userId |-> key, bio |-> ProfileBare.bio,
        organization |-> ProfileBare.organization, role |-> ProfileBare.role,
        phone |-> ProfileBare.phone, timezone |-> ProfileBare.timezone,
        preferences |-> ProfileBare.preferences, createdAt |-> now, updatedAt |-> now]

\* { $set: upd } applied to document p at time `now` (timestamps: true).
ApplySet(p, upd) ==
  [f \in DOMAIN p |->
     IF f = "updatedAt" THEN now
     ELSE IF f \in DOMAIN upd THEN upd[f]
     ELSE p[f]]

(***************************************************************************)
(* 3) Auth middleware.                                                     *)
(***************************************************************************)
\* auth?.startsWith('Bearer ') ? auth.split(' ')[1] : null
BearerToken(auth) == IF auth.scheme = "Bearer" THEN auth.token ELSE UNDEF

\* jwt.verify(token, JWT_SECRET, ...) succeeds: the token is signed with the secret
\* and has not expired.
Verified(token) == token = "good"

\* A resolution that looks at id before email.
ResolveIdentifierIdFirst(decoded) ==
  OrElse(OrElse(OrElse(decoded.id, decoded.email), decoded.userId), decoded.sub)

\* decoded.email || decoded.id || decoded.userId || decoded.sub
ResolveIdentifier(decoded) ==
  OrElse(OrElse(OrElse(decoded.email, decoded.id), decoded.userId), decoded.sub)

\* The middleware's verdict: the response it sends, or next() with req.userIdentifier.
authenticateToken(rq) ==
  LET token == BearerToken(rq.auth)
      id    == ResolveIdentifier(rq.decoded)
  IN  IF Falsy(token)
        THEN [next |-> FALSE, status |-> 401, message |-> "Token missing", userIdentifier |-> UNDEF]
      ELSE IF ~Verified(token)
        THEN [next |-> FALSE, status |-> 403, message |-> "Token invalid", userIdentifier |-> UNDEF]
      ELSE IF Falsy(id)
        THEN [next |-> FALSE, status |-> 400, message |-> "Invalid token payload", userIdentifier |-> UNDEF]
      ELSE [next |-> TRUE, status |-> 0, message |-> "", userIdentifier |-> id]

(***************************************************************************)
(* Requests, handler positions and responses.                              *)
(***************************************************************************)
NoReq == [route |-> "none"]

NoLocal ==
  [userIdentifier |-> UNDEF, awaiting |-> 0, conn |-> 0, email |-> UNDEF,
   user |-> Null, profile |-> Null]

\* The first store call of each route's handler.
FirstOp(route) ==
  CASE route = "GET /api/profile" -> "profile.findOne"
    [] route = "PUT /api/profile" -> "profile.findOneAndUpdate"
    [] route = "GET /api/me"      -> "me.findUser"
    [] route = "PUT /api/me"      -> "putme.findUser"

\* The handler of r makes the store call it stands at.
Called(r) == calls' = [calls EXCEPT ![r] = Append(@, pc[r])]

Finished(r) == pc[r] \in {"done", "rejected"}

Goto(r, p) == pc' = [pc EXCEPT ![r] = p]

\* res.status(status).json(body)
Send(r, status, body) ==
  res' = [res EXCEPT ![r] = Append(@, [status |-> status, body |-> body])]

\* A rejection that leaves the async handler (thrown outside try, or inside catch).
\* Express 4 ignores the handler's promise: nothing is sent.  Express 5 passes the
\* rejection to its default error handler, which sends a 500 page.
Escape(r) ==
  /\ Goto(r, "rejected")
  /\ IF build.forwardsRejections
       THEN Send(r, 500, [html |-> "Internal Server Error"])
       ELSE UNCHANGED res

\* catch (error) { ... res.status(500).json({ error: error.message }) }
Catch500(r, message) ==
  /\ Send(r, 500, [error |-> message])
  /\ Goto(r, "done")

StoreUnreachable == "store unreachable"

DuplicateKey == "E11000 duplicate key error"

ValidationFailed == "Validation failed"

TypeErrorMessage == "Cannot read properties of null (reading 'email')"

(***************************************************************************)
(* 1) connectDB.                                                            *)
(***************************************************************************)
\* A connectDB that does not look at cached.promise.
NoPromiseCheck(c) == TRUE

\* if (!cached.promise)
NoPromise(c) == c.promise = 0

\* The synchronous part of connectDB, run when request r's handler starts: return
\* the cached handle, or start an attempt if there is no promise, and await
\* cached.promise.
connectDB(r, id) ==
  IF cached.conn # 0
    THEN /\ local' = [local EXCEPT ![r] = [NoLocal EXCEPT !.userIdentifier = id,
                                                         !.conn = cached.conn]]
         /\ Goto(r, FirstOp(req'[r].route))
         /\ UNCHANGED connvars
  ELSE IF NoPromise(cached)
    THEN /\ promises' = Append(promises, "pending")
         /\ cached' = [cached EXCEPT !.promise = Len(promises) + 1]
         /\ local' = [local EXCEPT ![r] = [NoLocal EXCEPT !.userIdentifier = id,
                                                         !.awaiting = Len(promises) + 1]]
         /\ Goto(r, "awaitConn")
  ELSE /\ local' = [local EXCEPT ![r] = [NoLocal EXCEPT !.userIdentifier = id,
                                                       !.awaiting = cached.promise]]
       /\ Goto(r, "awaitConn")
       /\ UNCHANGED connvars

\* A request arrives: the middleware runs, then the handler up to its first await.
Arrive(r, rq) ==
  /\ pc[r] = "idle"
  /\ req' = [req EXCEPT ![r] = rq]
  /\ LET a == authenticateToken(rq)
     IN  IF ~a.next
           THEN /\ Send(r, a.status, [message |-> a.message])
                /\ Goto(r, "done")
                /\ UNCHANGED <<local, connvars>>
         ELSE IF rq.route = "GET /api/debug-token"
           THEN /\ Send(r, 200, [ok |-> TRUE, userIdentifier |-> a.userIdentifier])
                /\ Goto(r, "done")
                /\ local' = [local EXCEPT ![r].userIdentifier = a.userIdentifier]
                /\ UNCHANGED connvars
         ELSE /\ connectDB(r, a.userIdentifier)
              /\ UNCHANGED res
  /\ UNCHANGED <<build, calls, reachable, dbvars>>

\* mongoose.connect settles: it resolves if the database is reachable and rejects
\* (server selection times out) if it is not.
ConnectSettle(a) ==
  /\ a \in 1..Len(promises)
  /\ promises[a] = "pending"
  /\ promises' = [promises EXCEPT ![a] = IF reachable THEN "resolved" ELSE "rejected"]
  /\ UNCHANGED <<build, calls, cached, reachable, dbvars, req, pc, local, res>>

\* cached.conn = await cached.promise; return cached.conn  -- and the handler goes on
\* to its first store call; a rejection is thrown out of the handler, whose
\* `await connectDB(reqId)` stands before its try block.
ConnectResume(r) ==
  /\ pc[r] = "awaitConn"
  /\ LET a == local[r].awaiting
     IN  \/ /\ promises[a] = "resolved"
            /\ cached' = [cached EXCEPT !.conn = a]
            /\ local' = [local EXCEPT ![r].conn = a]
            /\ Goto(r, FirstOp(req[r].route))
            /\ UNCHANGED res
         \/ /\ promises[a] = "rejected"
            /\ Escape(r)
            /\ UNCHANGED <<cached, local>>
  /\ UNCHANGED <<build, calls, promises, reachable, dbvars, req>>

\* The database becomes unreachable, or reachable again.
DbDown ==
  /\ reachable
  /\ reachable' = FALSE
  /\ UNCHANGED <<build, calls, connvars, dbvars, req, pc, local, res>>

DbUp ==
  /\ ~reachable
  /\ reachable' = TRUE
  /\ UNCHANGED <<build, calls, connvars, dbvars, req, pc, local, res>>

(***************************************************************************)
(* GET /api/profile.                                                       *)
(***************************************************************************)
\* let profile = await UserProfile.findOne({ userId: key }); if found, res.json(profile)
GetProfileFind(r) ==
  /\ pc[r] = "profile.findOne"
  /\ Called(r)
  /\ IF ~reachable
       THEN Catch500(r, StoreUnreachable) /\ UNCHANGED local
       ELSE \E profile \in FindOne({p \in profiles : p.userId = local[r].userIdentifier}) :
              /\ local' = [local EXCEPT ![r].profile = profile]
              /\ IF profile = Null
                   THEN Goto(r, "profile.create") /\ UNCHANGED res
                   ELSE Send(r, 200, Hydrate(profile)) /\ Goto(r, "done")
  /\ UNCHANGED <<build, connvars, reachable, dbvars, req>>

\* profile = await UserProfile.create({ userId: key }); res.json(profile)
\* a duplicate key (error.code === 11000) leads to the refetch in the catch block.
GetProfileCreate(r) ==
  /\ pc[r] = "profile.create"
  /\ Called(r)
  /\ LET key == local[r].userIdentifier
     IN  IF ~reachable
           THEN Catch500(r, StoreUnreachable) /\ UNCHANGED <<local, dbvars>>
         ELSE IF UniqueViolation(profiles, key)
           THEN Goto(r, "profile.refetch") /\ UNCHANGED <<local, dbvars, res>>
         ELSE /\ profiles' = profiles \cup {NewProfile(key)}
              /\ now' = now + 1
              /\ local' = [local EXCEPT ![r].profile = NewProfile(key)]
              /\ Send(r, 200, NewProfile(key))
              /\ Goto(r, "done")
              /\ UNCHANGED users
  /\ UNCHANGED <<build, connvars, reachable, req>>

\* catch: const profile = await UserProfile.findOne({ userId }); return res.json(profile)
\* a failure of this findOne is thrown inside the catch block and leaves the handler.
GetProfileRefetch(r) ==
  /\ pc[r] = "profile.refetch"
  /\ Called(r)
  /\ IF ~reachable
       THEN Escape(r) /\ UNCHANGED local
       ELSE \E profile \in FindOne({p \in profiles : p.userId = local[r].userIdentifier}) :
              /\ local' = [local EXCEPT ![r].profile = profile]
              /\ Send(r, 200, IF profile = Null THEN Null ELSE Hydrate(profile))
              /\ Goto(r, "done")
  /\ UNCHANGED <<build, connvars, reachable, dbvars, req>>

(***************************************************************************)
(* findOneAndUpdate(filter, { $set: upd }, { new: true, upsert }) on        *)
(* userProfiles: the matched document before and after, or the document    *)
(* the upsert inserts.                                                     *)
(***************************************************************************)
UpsertOutcomes(key, upd) ==
  LET M == {p \in profiles : p.userId = key}
  IN  IF M = {} THEN {[old |-> Null, new |-> ApplySet(UpsertSeed(key), upd)]}
      ELSE {[old |-> p, new |-> ApplySet(p, upd)] : p \in M}

(***************************************************************************)
(* PUT /api/profile.                                                       *)
(***************************************************************************)
ImmutableFields == {"userId", "_id", "createdAt", "updatedAt"}

\* A strip that forgets the owning key.
StripKeepsUserId(body) == [k \in DOMAIN body \ {"_id", "createdAt", "updatedAt"} |-> body[k]]

\* const updates = { ...req.body }; delete updates.userId; delete updates._id;
\* delete updates.createdAt; delete updates.updatedAt;
StripImmutable(body) == [k \in DOMAIN body \ ImmutableFields |-> body[k]]

\* UserProfile.findOneAndUpdate({ userId }, { $set: updates },
\*   { new: true, upsert: true, runValidators: true }); res.json(profile)
PutProfileUpdate(r) ==
  /\ pc[r] = "profile.findOneAndUpdate"
  /\ Called(r)
  /\ LET key     == local[r].userIdentifier
         updates == StripImmutable(req[r].body)
     IN  IF ~ValidUpdate(updates)
           THEN Catch500(r, ValidationFailed) /\ UNCHANGED <<local, dbvars>>
         ELSE IF ~reachable
           THEN Catch500(r, StoreUnreachable) /\ UNCHANGED <<local, dbvars>>
         ELSE \E o \in UpsertOutcomes(key, updates) :
                IF UniqueViolation(profiles \ {o.old}, o.new.userId)
                  THEN Catch500(r, DuplicateKey) /\ UNCHANGED <<local, dbvars>>
                  ELSE /\ profiles' = (profiles \ {o.old}) \cup {o.new}
                       /\ now' = now + 1
                       /\ local' = [local EXCEPT ![r].profile = o.new]
                       /\ Send(r, 200, Hydrate(o.new))
                       /\ Goto(r, "done")
                       /\ UNCHANGED users
  /\ UNCHANGED <<build, connvars, reachable, req>>

(***************************************************************************)
(* GET /api/me and PUT /api/me.                                            *)
(***************************************************************************)
\* The identifiers that have the format of an ObjectId.
ObjectIdFormat == {"64b7f0c2a1d4e5f6a7b8c9d0", "64b7f0c2a1d4e5f6a7b8c9ff"}

\* mongoose.Types.ObjectId.isValid(identifier)
IsValidObjectId(identifier) == identifier \in ObjectIdFormat

\* A merge that prefers the profile's organization and phone.
MergedProfileFirst(user, profile) ==
  [email        |-> user.email,
   name         |-> OrElse(user.name, ""),
   avatar       |-> OrElse(user.avatar, ""),
   image        |-> OrElse(user.image, ""),
   organization |-> OrElse(OrElse(profile.organization, user.organization), ""),
   phone        |-> OrElse(OrElse(profile.phone, user.phone), ""),
   timezone     |-> OrElse(profile.timezone, "Africa/Tunis"),
   preferences  |-> OrElseObj(profile.preferences, EmptyObj)]

\* The merged view of a (lean) user and a (lean) profile.
Merged(user, profile) ==
  [email        |-> user.email,
   name         |-> OrElse(user.name, ""),
   avatar       |-> OrElse(user.avatar, ""),
   image        |-> OrElse(user.image, ""),
   organization |-> OrElse(OrElse(user.organization, profile.organization), ""),
   phone        |-> OrElse(OrElse(user.phone, profile.phone), ""),
   timezone     |-> OrElse(profile.timezone, "Africa/Tunis"),
   preferences  |-> OrElseObj(profile.preferences, EmptyObj)]

\* A handler that goes on without a user.
UserMissingNever(user) == FALSE

\* if (!user)
UserMissing(user) == user = Null

\* A key taken from the token and not from the account.
ProfileKeyRaw(user, identifier) == identifier

\* const userKey = user.email (GET /api/me); const email = userDoc.email (PUT /api/me)
ProfileKey(user, identifier) == user.email

NotFoundBody(identifier) == [message |-> "User not found", identifierUsed |-> identifier]

\* let user = await User.findOne({ email: identifier }).lean(); then the ObjectId
\* fallback if the identifier qualifies, else 404.  `found` is the position the
\* handler goes to with a user, `byId` the position of its findById.
FindUser(r, here, byId, found) ==
  /\ pc[r] = here
  /\ Called(r)
  /\ LET identifier == local[r].userIdentifier
     IN  IF ~reachable
           THEN Catch500(r, StoreUnreachable) /\ UNCHANGED local
           ELSE \E user \in FindOne({u \in users : u.email = identifier}) :
                  /\ local' = [local EXCEPT ![r].user = user,
                                            ![r].email = IF user = Null THEN UNDEF
                                                         ELSE ProfileKey(user, identifier)]
                  /\ IF user = Null /\ IsValidObjectId(identifier)
                       THEN Goto(r, byId) /\ UNCHANGED res
                     ELSE IF UserMissing(user)
                       THEN Send(r, 404, NotFoundBody(identifier)) /\ Goto(r, "done")
                     ELSE Goto(r, found) /\ UNCHANGED res
  /\ UNCHANGED <<build, connvars, reachable, dbvars, req>>

\* user = await User.findById(identifier).lean(); if (!user) 404
FindUserById(r, here, found) ==
  /\ pc[r] = here
  /\ Called(r)
  /\ LET identifier == local[r].userIdentifier
     IN  IF ~reachable
           THEN Catch500(r, StoreUnreachable) /\ UNCHANGED local
           ELSE \E user \in FindOne({u \in users : u._id = identifier}) :
                  /\ local' = [local EXCEPT ![r].user = user,
                                            ![r].email = IF user = Null THEN UNDEF
                                                         ELSE ProfileKey(user, identifier)]
                  /\ IF UserMissing(user)
                       THEN Send(r, 404, NotFoundBody(identifier)) /\ Goto(r, "done")
                       ELSE Goto(r, found) /\ UNCHANGED res
  /\ UNCHANGED <<build, connvars, reachable, dbvars, req>>

GetMeFindUser(r) == FindUser(r, "me.findUser", "me.findById", "me.findProfile")

GetMeFindById(r) == FindUserById(r, "me.findById", "me.findProfile")

\* let profile = await UserProfile.findOne({ userId: userKey }).lean(); merge if found
GetMeFindProfile(r) ==
  /\ pc[r] = "me.findProfile"
  /\ Called(r)
  /\ LET userKey == local[r].email
     IN  IF ~reachable
           THEN Catch500(r, StoreUnreachable) /\ UNCHANGED local
           ELSE \E profile \in FindOne({p \in profiles : p.userId = userKey}) :
                  /\ local' = [local EXCEPT ![r].profile = profile]
                  /\ IF profile = Null
                       THEN Goto(r, "me.create") /\ UNCHANGED res
                       ELSE Send(r, 200, Merged(local[r].user, profile)) /\ Goto(r, "done")
  /\ UNCHANGED <<build, connvars, reachable, dbvars, req>>

\* profile = await UserProfile.create({ userId: userKey }); profile = profile.toObject();
\* merge.  The catch block answers every error, a duplicate key included, with 500.
GetMeCreate(r) ==
  /\ pc[r] = "me.create"
  /\ Called(r)
  /\ LET userKey == local[r].email
     IN  IF ~reachable
           THEN Catch500(r, StoreUnreachable) /\ UNCHANGED <<local, dbvars>>
         ELSE IF UniqueViolation(profiles, userKey)
           THEN Catch500(r, DuplicateKey) /\ UNCHANGED <<local, dbvars>>
         ELSE /\ profiles' = profiles \cup {NewProfile(userKey)}
              /\ now' = now + 1
              /\ local' = [local EXCEPT ![r].profile = NewProfile(userKey)]
              /\ Send(r, 200, Merged(local[r].user, NewProfile(userKey)))
              /\ Goto(r, "done")
              /\ UNCHANGED users
  /\ UNCHANGED <<build, connvars, reachable, req>>

PutMeFindUser(r) == FindUser(r, "putme.findUser", "putme.findById", "putme.updateUser")

PutMeFindById(r) == FindUserById(r, "putme.findById", "putme.updateUser")

UserFields == {"name", "avatar", "image", "organization", "phone"}

\* if (typeof req.body.<f> === "string") userUpdates.<f> = req.body.<f>
UserUpdates(body) ==
  [k \in {f \in UserFields \cap DOMAIN body : IsString(body[f])} |-> body[k]]

\* if (typeof req.body.timezone === "string") ...; if (req.body.preferences &&
\* typeof req.body.preferences === "object") profileUpdates.preferences = ...
ProfileUpdates(body) ==
  [k \in {f \in {"timezone"} \cap DOMAIN body : IsString(body[f])}
         \cup {f \in {"preferences"} \cap DOMAIN body : body[f] # NoObj} |-> body[k]]

\* const user = await User.findOneAndUpdate({ email }, { $set: userUpdates },
\*   { new: true }).lean()
PutMeUpdateUser(r) ==
  /\ pc[r] = "putme.updateUser"
  /\ Called(r)
  /\ LET email == local[r].email
     IN  IF ~reachable
           THEN Catch500(r, StoreUnreachable) /\ UNCHANGED <<local, dbvars>>
           ELSE \E u \in FindOne({u \in users : u.email = email}) :
                  /\ IF u = Null
                       THEN /\ local' = [local EXCEPT ![r].user = Null]
                            /\ UNCHANGED dbvars
                       ELSE LET user == ApplySet(u, UserUpdates(req[r].body))
                            IN  /\ users' = (users \ {u}) \cup {user}
                                /\ now' = now + 1
                                /\ local' = [local EXCEPT ![r].user = user]
                                /\ UNCHANGED profiles
                  /\ Goto(r, "putme.upsert")
                  /\ UNCHANGED res
  /\ UNCHANGED <<build, connvars, reachable, req>>

\* const profile = await UserProfile.findOneAndUpdate({ userId: email },
\*   { $set: profileUpdates }, { new: true, upsert: true, runValidators: true }).lean();
\* merge (user.email throws a TypeError, caught, if the user update matched nothing)
PutMeUpsert(r) ==
  /\ pc[r] = "putme.upsert"
  /\ Called(r)
  /\ LET email   == local[r].email
         user    == local[r].user
         updates == ProfileUpdates(req[r].body)
     IN  IF ~ValidUpdate(updates)
           THEN Catch500(r, ValidationFailed) /\ UNCHANGED <<local, dbvars>>
         ELSE IF ~reachable
           THEN Catch500(r, StoreUnreachable) /\ UNCHANGED <<local, dbvars>>
         ELSE \E o \in UpsertOutcomes(email, updates) :
                IF UniqueViolation(profiles \ {o.old}, o.new.userId)
                  THEN Catch500(r, DuplicateKey) /\ UNCHANGED <<local, dbvars>>
                  ELSE /\ profiles' = (profiles \ {o.old}) \cup {o.new}
                       /\ now' = now + 1
                       /\ local' = [local EXCEPT ![r].profile = o.new]
                       /\ UNCHANGED users
                       /\ IF user = Null
                            THEN Catch500(r, TypeErrorMessage)
                            ELSE Send(r, 200, Merged(user, o.new)) /\ Goto(r, "done")
  /\ UNCHANGED <<build, connvars, reachable, req>>

(***************************************************************************)
(* Requests and initial states.                                            *)
(***************************************************************************)
EmailA == "a@x.com"

OidA == "64b7f0c2a1d4e5f6a7b8c9d0"

OidZ == "64b7f0c2a1d4e5f6a7b8c9ff"

Account(name, avatar, image, organization, phone) ==
  [_id |-> OidA, email |-> EmailA, name |-> name, avatar |-> avatar, image |-> image,
   organization |-> organization, phone |-> phone, updatedAt |-> 0]

\* { email: "a@x.com", name: "Ann" }
AccountAnn == Account("Ann", UNDEF, UNDEF, UNDEF, UNDEF)

Payload(email, id, userId, sub) == [email |-> email, id |-> id, userId |-> userId, sub |-> sub]

GoodToken == [scheme |-> "Bearer", token |-> "good"]

Request(route, auth, decoded, body) ==
  [route |-> route, auth |-> auth, decoded |-> decoded, body |-> body]

\* The builds: whether the installed express forwards a rejected handler promise to
\* its error handler (5.x) or ignores it (4.x), and whether the installed mongoose
\* sets schema defaults on an upsert's insert (6.x on) or not.
Builds == [forwardsRejections : BOOLEAN, defaultsOnInsert : BOOLEAN]

\* No handler promise is rejected while the database is reachable, so the express
\* versions do not differ there.
ReachableBuilds == {b \in Builds : ~b.forwardsRejections}

InitWith(accounts, builds) ==
  /\ build \in builds
  /\ cached = [conn |-> 0, promise |-> 0]
  /\ promises = <<>>
  /\ reachable = TRUE
  /\ users \in {{a} : a \in accounts}
  /\ profiles = {}
  /\ now = 1
  /\ req = [r \in Reqs |-> NoReq]
  /\ pc = [r \in Reqs |-> "idle"]
  /\ local = [r \in Reqs |-> NoLocal]
  /\ calls = [r \in Reqs |-> <<>>]
  /\ res = [r \in Reqs |-> <<>>]

\* One step of the handler of request r.
Handle(r) ==
  \/ ConnectResume(r)
  \/ GetProfileFind(r)
  \/ GetProfileCreate(r)
  \/ GetProfileRefetch(r)
  \/ PutProfileUpdate(r)
  \/ GetMeFindUser(r)
  \/ GetMeFindById(r)
  \/ GetMeFindProfile(r)
  \/ GetMeCreate(r)
  \/ PutMeFindUser(r)
  \/ PutMeFindById(r)
  \/ PutMeUpdateUser(r)
  \/ PutMeUpsert(r)

Routes == {"GET /api/profile", "PUT /api/profile", "GET /api/me", "PUT /api/me"}

\* A token whose payload carries the identifier id (as its subject).
TokenFor(id) == Payload(UNDEF, UNDEF, UNDEF, id)

\* The account's email, its _id, an ObjectId of no account, an identifier of no account.
Identifiers == {EmailA, OidA, OidZ, "u1"}

\* Request bodies of PUT /api/profile: a plain update, one that also tries to set
\* the immutable fields, one with a unit outside the enum.
PlainBody == [timezone |-> "UTC", organization |-> "Acme"]

ForgedBody ==
  [userId |-> "mallory@x.com", _id |-> 99, createdAt |-> 0, updatedAt |-> 0, phone |-> "555"]

BadEnumBody == [preferences |-> [units |-> [temperature |-> "kelvin"]]]

\* A body of PUT /api/me: a new name for the Account, and a unit outside the enum.
RenameBadEnumBody == [name |-> "Bob", preferences |-> BadEnumBody.preferences]

(***************************************************************************)
(* Spec: the four routes under every interleaving, with the database        *)
(* going away and coming back.                                             *)
(***************************************************************************)
CoreRequests ==
  {Request(route, GoodToken, TokenFor(id), IF route \in {"PUT /api/profile", "PUT /api/me"}
                                             THEN PlainBody ELSE EmptyObj) :
     route \in Routes, id \in Identifiers}

Init == InitWith({AccountAnn}, Builds)

Next ==
  \/ \E r \in Reqs : \E rq \in CoreRequests : Arrive(r, rq)
  \/ \E a \in Reqs : ConnectSettle(a)
  \/ \E r \in Reqs : Handle(r)
  \/ DbDown
  \/ DbUp

Spec == Init /\ [][Next]_vars

(***************************************************************************)
(* SpecConnect: connectDB under requests of one route each, with the        *)
(* database going away and coming back.                                    *)
(***************************************************************************)
ConnectRequests ==
  {Request(route, GoodToken, TokenFor(EmailA), IF route \in {"PUT /api/profile", "PUT /api/me"}
                                                 THEN PlainBody ELSE EmptyObj) :
     route \in Routes}

NextConnect ==
  \/ \E r \in Reqs : \E rq \in ConnectRequests : Arrive(r, rq)
  \/ \E a \in Reqs : ConnectSettle(a)
  \/ \E r \in Reqs :
       \/ ConnectResume(r)
       \/ GetProfileFind(r)
       \/ GetProfileCreate(r)
       \/ GetProfileRefetch(r)
       \/ PutProfileUpdate(r)
       \/ GetMeFindUser(r)
       \/ GetMeFindProfile(r)
       \/ GetMeCreate(r)
       \/ PutMeFindUser(r)
       \/ PutMeUpdateUser(r)
       \/ PutMeUpsert(r)
  \/ DbDown
  \/ DbUp

\* connectDB does not depend on what an upsert inserts: one mongoose.
InitConnect == InitWith({AccountAnn}, {b \in Builds : b.defaultsOnInsert})

SpecConnect == InitConnect /\ [][NextConnect]_vars

(***************************************************************************)
(* SpecReachable: the same with the database reachable throughout, so that *)
(* the only store error is the unique index's, and with the bodies above.  *)
(***************************************************************************)
RaceRequests ==
  {Request("GET /api/profile", GoodToken, TokenFor(id), EmptyObj) : id \in {EmailA, OidZ}}
  \cup {Request("GET /api/me", GoodToken, TokenFor(id), EmptyObj) : id \in Identifiers}
  \cup {Request("PUT /api/profile", GoodToken, TokenFor(EmailA), body) :
          body \in {PlainBody, ForgedBody, BadEnumBody}}
  \cup {Request("PUT /api/me", GoodToken, TokenFor(OidA), body) :
          body \in {PlainBody, RenameBadEnumBody}}

NextReachable ==
  \/ \E r \in Reqs : \E rq \in RaceRequests : Arrive(r, rq)
  \/ \E a \in Reqs : ConnectSettle(a)
  \/ \E r \in Reqs : Handle(r)

InitReachable == InitWith({AccountAnn}, ReachableBuilds)

SpecReachable == InitReachable /\ [][NextReachable]_vars

(***************************************************************************)
(* SpecMerge: the merged routes over every shape of Account (fields unset,  *)
(* empty or set) and Profiles whose fields are unset, empty or set.        *)
(***************************************************************************)
MergeAccounts ==
  {Account(name, pics[1], pics[2], contact[1], contact[2]) :
     name \in {UNDEF, "Ann"},
     pics \in {<<UNDEF, "i.png">>, <<"a.png", UNDEF>>},
     contact \in {<<UNDEF, "111">>, <<"", UNDEF>>, <<"AccOrg", "">>}}

MergeRequests ==
  {Request("GET /api/me", GoodToken, TokenFor(EmailA), EmptyObj)}
  \cup {Request("PUT /api/me", GoodToken, TokenFor(EmailA), body) :
          body \in {[timezone |-> "UTC", organization |-> "Acme"],
                    [name |-> "<number 42>", organization |-> "", phone |-> "",
                     preferences |-> [language |-> "fr"]]}}
  \cup {Request("PUT /api/profile", GoodToken, TokenFor(EmailA),
                [organization |-> "ProfOrg", phone |-> "999", timezone |-> ""])}

InitMerge == InitWith(MergeAccounts, ReachableBuilds)

NextMerge ==
  \/ \E r \in Reqs : \E rq \in MergeRequests : Arrive(r, rq)
  \/ \E a \in Reqs : ConnectSettle(a)
  \/ \E r \in Reqs :
       \/ ConnectResume(r)
       \/ PutProfileUpdate(r)
       \/ GetMeFindUser(r)
       \/ GetMeFindProfile(r)
       \/ GetMeCreate(r)
       \/ PutMeFindUser(r)
       \/ PutMeUpdateUser(r)
       \/ PutMeUpsert(r)

SpecMerge == InitMerge /\ [][NextMerge]_vars

(***************************************************************************)
(* SpecAuth: the middleware over every Authorization header and every      *)
(* token payload, in front of a route without and a route with store calls. *)
(***************************************************************************)
AuthHeaders ==
  {[scheme |-> "none", token |-> ""], [scheme |-> "Basic", token |-> "good"],
   [scheme |-> "Bearer", token |-> ""], [scheme |-> "Bearer", token |-> "bad"]}

AuthPayloads ==
  {Payload(email, id, userId, sub) :
     email \in {UNDEF, "", EmailA}, id \in {UNDEF, "", OidA},
     userId \in {UNDEF, "", "u7"}, sub \in {UNDEF, "", "u1"}}

AuthRequests ==
  {Request("GET /api/debug-token", auth, TokenFor("u1"), EmptyObj) : auth \in AuthHeaders}
  \cup {Request("GET /api/debug-token", GoodToken, decoded, EmptyObj) :
          decoded \in AuthPayloads}
  \cup {Request("GET /api/profile", GoodToken, decoded, EmptyObj) :
          decoded \in {TokenFor("u1"), Payload(UNDEF, "", UNDEF, UNDEF),
                       Payload(EmailA, OidA, "u7", "u1")}}

NextAuth ==
  \/ \E r \in Reqs : \E rq \in AuthRequests : Arrive(r, rq)
  \/ \E a \in Reqs : ConnectSettle(a)
  \/ \E r \in Reqs :
       \/ ConnectResume(r)
       \/ GetProfileFind(r)
       \/ GetProfileCreate(r)
       \/ GetProfileRefetch(r)

\* The middleware and GET /api/profile's handler do not depend on the build.
InitAuth == InitWith({AccountAnn}, {b \in Builds : ~b.forwardsRejections /\ b.defaultsOnInsert})

SpecAuth == InitAuth /\ [][NextAuth]_vars

(***************************************************************************)
(* Properties.                                                             *)
(***************************************************************************)
ProfilesOf(key) == {p \in profiles : p.userId = key}

\* r1 and r2 are the only requests the process has received.
Alone(r1, r2) == \A r3 \in Reqs \ {r1, r2} : pc[r3] = "idle"

\* C1: two GET /api/profile requests with the same identity key, alone in a process
\* that started with no Profile, under every interleaving of their store calls:
\* afterwards exactly one Profile has that owning key, and each request was answered
\* once, with status 200 and with that same Profile.
C1_ConcurrentGetOrCreate ==
  \A r1, r2 \in Reqs :
    ( /\ r1 # r2
      /\ req[r1].route = "GET /api/profile"
      /\ req[r2].route = "GET /api/profile"
      /\ Finished(r1)
      /\ Finished(r2)
      /\ local[r1].userIdentifier # UNDEF
      /\ local[r1].userIdentifier = local[r2].userIdentifier
      /\ Alone(r1, r2) )
    => LET key == local[r1].userIdentifier
       IN  /\ Cardinality(ProfilesOf(key)) = 1
           /\ Len(res[r1]) = 1
           /\ Len(res[r2]) = 1
           /\ res[r1][1].status = 200
           /\ res[r2][1].status = 200
           /\ res[r1][1].body = res[r2][1].body
           /\ res[r1][1].body \in {Hydrate(p) : p \in ProfilesOf(key)}

\* Both requests found no Profile, one created it, the other hit the unique index
\* and refetched.
C1_Witness ==
  \E r1, r2 \in Reqs :
    /\ r1 # r2
    /\ Alone(r1, r2)
    /\ req[r1].route = "GET /api/profile"
    /\ req[r2].route = "GET /api/profile"
    /\ local[r1].userIdentifier = local[r2].userIdentifier
    /\ pc[r1] = "done"
    /\ pc[r2] = "done"
    /\ calls[r1] = <<"profile.findOne", "profile.create">>
    /\ calls[r2] = <<"profile.findOne", "profile.create", "profile.refetch">>

\* C2: no request is answered with an error status because another request created
\* the Profile first: no response carries the duplicate-key error.
C2_DuplicateKeyNeverSurfaced ==
  \A r \in Reqs : \A i \in 1..Len(res[r]) :
    ~(res[r][i].status >= 400 /\ res[r][i].body = [error |-> DuplicateKey])

Attempts == 1..Len(promises)

\* C3 (states): at most one attempt is in flight or has succeeded; the callers that
\* await while an attempt is in flight all await that attempt, which is the cached
\* promise; every caller that got a handle got the cached one.
C3_OneAttempt ==
  /\ Cardinality({a \in Attempts : promises[a] \in {"pending", "resolved"}}) <= 1
  /\ \A r \in Reqs :
       (pc[r] = "awaitConn" /\ \E a \in Attempts : promises[a] = "pending")
         => (local[r].awaiting = cached.promise /\ promises[cached.promise] = "pending")
  /\ \A r \in Reqs : local[r].conn # 0 => local[r].conn = cached.conn
  /\ \A r1, r2 \in Reqs :
       (local[r1].conn # 0 /\ local[r2].conn # 0) => local[r1].conn = local[r2].conn

\* C3 (steps): while an attempt is in flight or has succeeded, and once the handle
\* is cached, no step initiates another connection attempt.
C3_NoSecondAttempt ==
  (cached.conn # 0 \/ \E a \in Attempts : promises[a] \in {"pending", "resolved"})
    => promises' \in {promises} \cup {[promises EXCEPT ![a] = s] :
                                       a \in Attempts, s \in {"resolved", "rejected"}}

\* C3: for any number of connectDB calls in any order, at most one connection attempt
\* is initiated as long as one is in flight or has succeeded, callers await the same
\* attempt and get the same handle, and no call connects again once it is cached.
C3_SingleConnection == []C3_OneAttempt /\ [][C3_NoSecondAttempt]_vars

\* Two requests awaited the same attempt and both hold its handle.
C3_Witness ==
  \E r1, r2 \in Reqs :
    /\ r1 # r2
    /\ local[r1].awaiting = 1
    /\ local[r2].awaiting = 1
    /\ local[r1].conn = 1
    /\ local[r2].conn = 1
    /\ Len(promises) = 1

\* C4: a call to connectDB made after a connection attempt has failed makes its own
\* new connection attempt.
C4_FreshCallRetries ==
  [][\A r \in Reqs :
       ( /\ pc[r] = "idle"
         /\ pc'[r] = "awaitConn"
         /\ cached.promise # 0
         /\ promises[cached.promise] = "rejected"
         /\ reachable )
       => Len(promises') = Len(promises) + 1]_vars

\* C5: every request to the four routes whose handler has ended was answered exactly
\* once, with a JSON body; one whose handler ended in a failure of connectDB or of
\* the refetch inside the duplicate-key recovery was answered with status 500.
C5_EveryFailureAnswered ==
  \A r \in Reqs :
    (Finished(r) /\ req[r].route \in Routes)
      => /\ Len(res[r]) = 1
         /\ "html" \notin DOMAIN res[r][1].body
         /\ pc[r] = "rejected" => res[r][1].status = 500

\* The identifier matches no Account, neither by email nor, when it has the format
\* of an internal id, by internal id.
NoAccount(identifier) ==
  ~\E u \in users :
     \/ u.email = identifier
     \/ IsValidObjectId(identifier) /\ u._id = identifier

\* C6 (states): a GET /api/me whose identifier matches no Account never gets to the
\* Profile lookup or creation, and when it ends it was answered once, with 404.
C6_NotFound ==
  \A r \in Reqs :
    (req[r].route = "GET /api/me" /\ NoAccount(local[r].userIdentifier))
      => /\ pc[r] \in {"awaitConn", "me.findUser", "me.findById", "done"}
         /\ pc[r] = "done"
              => /\ Len(res[r]) = 1
                 /\ res[r][1].status = 404
                 /\ res[r][1].body.message = "User not found"

\* C6 (steps): no step of such a request creates or modifies a record.
C6_NoWrite ==
  \A r \in Reqs :
    (req'[r].route = "GET /api/me" /\ NoAccount(local'[r].userIdentifier) /\ pc'[r] # pc[r])
      => UNCHANGED <<users, profiles>>

\* C6: GET /api/me for an identifier that matches no Account answers 404 whether or
\* not a Profile keyed by the identifier exists, and creates and modifies nothing.
C6_AccountNotFound == []C6_NotFound /\ [][C6_NoWrite]_vars

\* A 404 for an identifier that has a Profile.
C6_Witness ==
  \E r \in Reqs :
    /\ req[r].route = "GET /api/me"
    /\ pc[r] = "done"
    /\ res[r][1].status = 404
    /\ ProfilesOf(local[r].userIdentifier) # {}
    /\ IsValidObjectId(local[r].userIdentifier)

NonEmpty(v) == v \notin {UNDEF, ""}

\* The view C7 describes of Account u and Profile p.
C7_View(u, p) ==
  [email        |-> u.email,
   name         |-> IF u.name = UNDEF THEN "" ELSE u.name,
   avatar       |-> IF u.avatar = UNDEF THEN "" ELSE u.avatar,
   image        |-> IF u.image = UNDEF THEN "" ELSE u.image,
   organization |-> IF NonEmpty(u.organization) THEN u.organization
                    ELSE IF NonEmpty(p.organization) THEN p.organization ELSE "",
   phone        |-> IF NonEmpty(u.phone) THEN u.phone
                    ELSE IF NonEmpty(p.phone) THEN p.phone ELSE "",
   timezone     |-> IF NonEmpty(p.timezone) THEN p.timezone ELSE "Africa/Tunis",
   preferences  |-> IF p.preferences = NoObj THEN EmptyObj ELSE p.preferences]

\* C7: the view GET /api/me and PUT /api/me answer with takes name, avatar and image
\* from the Account (empty string when unset), organization and phone from the
\* Account when non-empty, else from the Profile, else empty string, and timezone
\* and preferences from the Profile (timezone "Africa/Tunis" when the Profile has
\* none or an empty one), for the Account and the Profile of that Account the
\* request read or wrote.
C7_MergedView ==
  \A r \in Reqs :
    ( /\ req[r].route \in {"GET /api/me", "PUT /api/me"}
      /\ Finished(r)
      /\ Len(res[r]) = 1
      /\ res[r][1].status = 200 )
    => /\ local[r].user.email = EmailA
       /\ local[r].profile.userId = local[r].user.email
       /\ res[r][1].body = C7_View(local[r].user, local[r].profile)

\* Account and Profile both have an organization, the Account has no phone and the
\* Profile has one.
C7_Witness ==
  \E r \in Reqs :
    /\ req[r].route = "GET /api/me"
    /\ pc[r] = "done"
    /\ res[r][1].status = 200
    /\ local[r].user.organization = "AccOrg"
    /\ local[r].profile.organization = "ProfOrg"
    /\ res[r][1].body.organization = "AccOrg"
    /\ local[r].user.phone = ""
    /\ res[r][1].body.phone = "999"
    /\ local[r].profile.timezone = ""
    /\ res[r][1].body.timezone = "Africa/Tunis"

\* The GET /api/me request r found no Profile, created it, and answered 200.
CreatedByGetMe(r) ==
  /\ req[r].route = "GET /api/me"
  /\ pc[r] = "done"
  /\ Len(calls[r]) > 0
  /\ calls[r][Len(calls[r])] = "me.create"
  /\ Len(res[r]) = 1
  /\ res[r][1].status = 200

\* The user is the Account { email: "a@x.com", name: "Ann" }.
IsAnn(user) == [user EXCEPT !.updatedAt = 0] = AccountAnn

AnnView(preferences) ==
  [email |-> "a@x.com", name |-> "Ann", avatar |-> "", image |-> "", organization |-> "",
   phone |-> "", timezone |-> "Africa/Tunis", preferences |-> preferences]

\* C8 as stated: the GET /api/me that creates the Profile of Account
\* { email: "a@x.com", name: "Ann" } answers with preferences {}.
C8_EmptyPreferences ==
  \A r \in Reqs :
    (CreatedByGetMe(r) /\ IsAnn(local[r].user)) => res[r][1].body = AnnView(EmptyObj)

\* C8 as amended: a GET /api/me that finds an Account but no Profile and creates the
\* Profile has stored a Profile keyed by the Account's email that holds the schema
\* defaults, and answers with timezone "Africa/Tunis" and the schema's default
\* preferences; for Account { email: "a@x.com", name: "Ann" } the response is the
\* view above with those preferences.
C8_DefaultPreferences ==
  \A r \in Reqs :
    CreatedByGetMe(r)
      => /\ \E p \in ProfilesOf(local[r].user.email) : p._id = local[r].profile._id
         /\ \A f \in ProfilePaths : local[r].profile[f] = ProfileDefaults[f]
         /\ res[r][1].body.timezone = "Africa/Tunis"
         /\ res[r][1].body.preferences = DefaultPreferences
         /\ IsAnn(local[r].user) => res[r][1].body = AnnView(DefaultPreferences)

C8_Witness == \E r \in Reqs : CreatedByGetMe(r) /\ IsAnn(local[r].user)

\* C9 (states): a PUT /api/profile whose body is valid apart from the immutable
\* fields is answered 200 with the Profile keyed by the token's identifier, which is
\* a stored record.
C9_NotRejected ==
  \A r \in Reqs :
    ( /\ req[r].route = "PUT /api/profile"
      /\ Finished(r)
      /\ ValidPreferences(Get(req[r].body, "preferences", EmptyObj)) )
    => /\ Len(res[r]) = 1
       /\ res[r][1].status = 200
       /\ res[r][1].body.userId = local[r].userIdentifier
       /\ \E p \in ProfilesOf(local[r].userIdentifier) : p._id = res[r][1].body._id

\* C9 (steps): every stored Profile keeps its internal id, owning key and creation
\* timestamp, and a PUT /api/profile for a key that has a Profile adds no record.
C9_ImmutableKept ==
  /\ \A p \in profiles :
       \E q \in profiles' :
         q._id = p._id /\ q.userId = p.userId /\ q.createdAt = p.createdAt
  /\ \A r \in Reqs :
       (pc[r] = "profile.findOneAndUpdate" /\ pc'[r] # pc[r]
          /\ ProfilesOf(local[r].userIdentifier) # {})
         => Cardinality(profiles') = Cardinality(profiles)

\* C9: PUT /api/profile ignores userId, _id, createdAt and updatedAt in the body: it
\* does not reject the request for them, and the stored owning key, internal id and
\* creation timestamp stay what they were.
C9_ImmutableIgnored == []C9_NotRejected /\ [][C9_ImmutableKept]_vars

\* An existing Profile was updated by a request that tried to set all four.
C9_Witness ==
  \E r \in Reqs :
    /\ req[r].route = "PUT /api/profile"
    /\ req[r].body = ForgedBody
    /\ pc[r] = "done"
    /\ res[r][1].status = 200
    /\ res[r][1].body.phone = "555"
    /\ res[r][1].body.updatedAt > res[r][1].body.createdAt

IdentifierFields(decoded) == <<decoded.email, decoded.id, decoded.userId, decoded.sub>>

\* The request's token was found and verified.
TokenVerified(r) ==
  /\ pc[r] # "idle"
  /\ req[r].auth.scheme = "Bearer"
  /\ req[r].auth.token = "good"

\* C10: for every verified token payload, the identifier is the first non-empty of
\* email, id, userId, sub; if none is present the request is answered 400 "Invalid
\* token payload" and the handler does not run.
C10_IdentifierOrder ==
  \A r \in Reqs :
    TokenVerified(r)
      => LET fields  == IdentifierFields(req[r].decoded)
             present == {i \in 1..4 : NonEmpty(fields[i])}
         IN  IF present = {}
               THEN /\ pc[r] = "done"
                    /\ res[r] = <<[status |-> 400,
                                   body |-> [message |-> "Invalid token payload"]]>>
                    /\ local[r] = NoLocal
                    /\ calls[r] = <<>>
               ELSE /\ \E i \in present :
                         /\ \A j \in present : i <= j
                         /\ local[r].userIdentifier = fields[i]
                    /\ \A k \in 1..Len(res[r]) : res[r][k].status # 400
                    /\ (req[r].route = "GET /api/debug-token")
                         => res[r] = <<[status |-> 200,
                                        body |-> [ok |-> TRUE,
                                                  userIdentifier |-> local[r].userIdentifier]]>>

\* A payload with only sub resolves to it; a payload with none was answered 400.
C10_Witness ==
  /\ \E r \in Reqs :
       /\ TokenVerified(r)
       /\ req[r].decoded = Payload(UNDEF, UNDEF, UNDEF, "u1")
       /\ local[r].userIdentifier = "u1"
  /\ \E r \in Reqs :
       /\ TokenVerified(r)
       /\ req[r].decoded = Payload(UNDEF, "", UNDEF, UNDEF)
       /\ res[r][1].status = 400

MeRoutes == {"GET /api/me", "PUT /api/me"}

\* Account u is the one the identifier resolves to: by email, or by _id.
ResolvesTo(identifier, u) == identifier \in {u.email, u._id}

\* C11 (states): the Profile a /api/me handler holds (read, created or upserted) is
\* keyed by the email of the stored Account its token identifier resolves to.
C11_HeldProfile ==
  \A r \in Reqs :
    (req[r].route \in MeRoutes /\ local[r].profile # Null)
      => \E u \in users : /\ ResolvesTo(local[r].userIdentifier, u)
                          /\ local[r].profile.userId = u.email

\* C11 (steps): every Profile a step of a /api/me handler creates or modifies is
\* keyed by the email of the stored Account the identifier resolves to, so none is
\* keyed by an identifier that is not that email.
C11_WrittenProfile ==
  \A r \in Reqs :
    (req'[r].route \in MeRoutes /\ pc'[r] # pc[r])
      => \A p \in profiles' \ profiles :
           \E u \in users' : /\ ResolvesTo(local'[r].userIdentifier, u)
                             /\ p.userId = u.email

\* C11: in GET /api/me and PUT /api/me the Profile that is read, created or upserted
\* is the one whose owning key is the resolved Account's email, also when the
\* token's identifier is the Account's _id: every Profile these routes create has
\* the email of an existing Account as its key, and none has the raw identifier.
C11_KeyedByAccountEmail == []C11_HeldProfile /\ [][C11_WrittenProfile]_vars

\* A GET /api/me and a PUT /api/me whose token carries the Account's _id, one of
\* which created the Profile, both answered 200 with the Profile keyed by the email.
C11_Witness ==
  \E r1, r2 \in Reqs :
    /\ req[r1].route = "GET /api/me"
    /\ req[r2].route = "PUT /api/me"
    /\ \A r \in {r1, r2} :
         /\ local[r].userIdentifier = OidA
         /\ pc[r] = "done"
         /\ res[r][1].status = 200
         /\ local[r].profile.userId = EmailA
    /\ \E r \in {r1, r2} : local[r].profile.createdAt = local[r].profile.updatedAt
    /\ \A p \in profiles : p.userId = EmailA

\* Request r is the only one the process has received.
OnlyRequest(r) == \A r2 \in Reqs \ {r} : pc[r2] = "idle"

\* C12: PUT /api/me is all-or-nothing across the two records: when the request is
\* answered with an error status, neither the Account nor the Profile has been
\* modified by it.  Stated for a request that is alone in a process that started
\* with the Account { email: "a@x.com", name: "Ann" } and no Profile: once it is
\* answered with an error status, the stored records are still those.
C12_AllOrNothing ==
  \A r \in Reqs :
    ( /\ req[r].route = "PUT /api/me"
      /\ OnlyRequest(r)
      /\ pc[r] = "done"
      /\ Len(res[r]) = 1
      /\ res[r][1].status >= 400 )
    => /\ users = {AccountAnn}
       /\ profiles = {}

====
